---- MODULE Spec2Model ----
(***************************************************************************)
(* The video cache of the fitness-builder UI (utils/videoCache): an        *)
(* IndexedDB object store 'videos' keyed by url, a 30 day expiry, a 500MB  *)
(* budget with an oldest-first sweep, and the cache-aside fetch            *)
(* fetchVideoWithCache with its wrapper getCachedVideoUrl.                 *)
(*                                                                         *)
(* Every exported function is a sequence of steps separated by its awaits  *)
(* and IndexedDB callbacks.  Two queues carry the asynchronous work:       *)
(*   openq  the pending indexedDB.open requests (served in order);         *)
(*   txq    the IndexedDB transactions that were created and have not yet  *)
(*          run.  A readwrite transaction starts when no transaction       *)
(*          created before it is live, a readonly one when no readwrite    *)
(*          transaction created before it is live.                         *)
(* Spec      one caller calls the exported functions one after the other;  *)
(*           what a call leaves behind overlaps the next call.             *)
(* UiSpec    the same for the components: loadVideo (isVideoCached, then   *)
(*           getCachedVideoUrl) and handleClearCache (clearVideoCache,     *)
(*           then getCacheStats).                                          *)
(* ConcSpec  two callers of getCachedVideoUrl, one call each, interleaved, *)
(*           on a storage that does not fail.                              *)
(* KeySpec   getVideoUrl on every path of up to MaxPathLen characters.     *)
(* The clock counts seconds(Date.now() counts milliseconds: the factor    *)
(* 1000 of expiryTime is dropped on both sides of the comparison).         *)
(***************************************************************************)
EXTENDS Integers, Sequences, FiniteSets, TLC

\* ------------------------------------------------------------------ bounds

\* The clock takes the values 0..MaxLate and expiryTime..expiryTime+MaxLate.
MaxLate == 1

\* A call starts only while at most MaxPending open requests and
\* transactions of earlier calls are still pending.
MaxPending == 0

\* The paths key derivation is tried on have at most MaxPathLen characters.
MaxPathLen == 3

\* The snapshots a sweep is tried on list at most MaxSnapshot records.
MaxSnapshot == 3

\* ------------------------------------------------------- program constants

MAX_CACHE_SIZE == 500 * 1024 * 1024

CACHE_EXPIRY_DAYS == 30

expiryTime == CACHE_EXPIRY_DAYS * 24 * 60 * 60

\* MAX_CACHE_SIZE * 0.8, the level a sweep evicts down to.
Watermark == (MAX_CACHE_SIZE * 4) \div 5

API_ROOT_URL == <<"http://localhost:8000">>

\* --------------------------------------------------------------- the inputs

\* Logical video paths, as sequences of characters and name tokens.
Paths == {<<"/", "a">>, <<"b">>}

\* The payloads the origin can answer with; size is the Blob's byte length.
Blobs ==
  { [body |-> "half",  size |-> MAX_CACHE_SIZE \div 2],
    [body |-> "sixty", size |-> (MAX_CACHE_SIZE \div 5) * 3],
    [body |-> "huge",  size |-> MAX_CACHE_SIZE + 1] }

NoBlob == [body |-> "none", size |-> 0]

Callers == {"c1", "c2"}

\* The callers that issue calls one after the other in Spec.
SeqCallers == {"c1"}

\* ---------------------------------------------------------- pure functions

\* replace(/^\//, '') for replace(/^\/+/, ''): one leading slash is removed.
StripLeading_Once(p) == IF p # <<>> /\ Head(p) = "/" THEN Tail(p) ELSE p

RECURSIVE StripLeading(_)
StripLeading(p) ==
  IF p # <<>> /\ Head(p) = "/" THEN StripLeading(Tail(p)) ELSE p

getVideoUrl(videoPath) == API_ROOT_URL \o <<"/">> \o StripLeading(videoPath)

\* The keys of the object store, in IndexedDB's key order.
UrlOrder == <<getVideoUrl(<<"a">>), getVideoUrl(<<"b">>)>>

Urls == {UrlOrder[i] : i \in 1..Len(UrlOrder)}

\* cacheVideo with a record whose size is not taken from the blob.
CachedVideo_NoSize(url, blob, timestamp) ==
  [url |-> url, blob |-> blob, timestamp |-> timestamp, size |-> 0]

\* cacheVideo with a record that carries no Date.now().
CachedVideo_Epoch(url, blob, timestamp) ==
  [url |-> url, blob |-> blob, timestamp |-> 0, size |-> blob.size]

CachedVideo(url, blob, timestamp) ==
  [url |-> url, blob |-> blob, timestamp |-> timestamp, size |-> blob.size]

RECURSIVE SumSizes(_)
SumSizes(entries) ==
  IF entries = <<>> THEN 0 ELSE Head(entries).size + SumSizes(Tail(entries))


\* getAll(): every record of the store, in key order.
RECURSIVE GetAllFrom(_, _)
GetAllFrom(s, i) ==
  IF i > Len(UrlOrder) THEN <<>>
  ELSE (IF \E e \in s : e.url = UrlOrder[i]
          THEN <<CHOOSE e \in s : e.url = UrlOrder[i]>>
          ELSE <<>>) \o GetAllFrom(s, i + 1)

GetAll(s) == GetAllFrom(s, 1)

\* entries.sort((a, b) => a.timestamp - b.timestamp): ascending and stable.
RECURSIVE InsertByTimestamp(_, _)
InsertByTimestamp(e, sorted) ==
  IF sorted = <<>> THEN <<e>>
  ELSE IF Head(sorted).timestamp <= e.timestamp
         THEN <<Head(sorted)>> \o InsertByTimestamp(e, Tail(sorted))
         ELSE <<e>> \o sorted

\* cleanupCache without entries.sort: the records stay in key order.
SortByTimestamp_Unsorted(entries) == entries

RECURSIVE SortByTimestamp(_)
SortByTimestamp(entries) ==
  IF entries = <<>> THEN <<>>
  ELSE InsertByTimestamp(entries[Len(entries)],
                         SortByTimestamp(SubSeq(entries, 1, Len(entries) - 1)))

\* cleanupCache that stops evicting as soon as the total is within
\* MAX_CACHE_SIZE.
RECURSIVE EvictLoop_ToBudget(_, _)
EvictLoop_ToBudget(entries, totalSize) ==
  IF entries = <<>> THEN <<>>
  ELSE LET rest == totalSize - Head(entries).size
       IN  IF rest <= MAX_CACHE_SIZE
             THEN <<Head(entries).url>>
             ELSE <<Head(entries).url>> \o EvictLoop_ToBudget(Tail(entries), rest)

\* The loop of cleanupCache: the urls it deletes, oldest first, until the
\* running total is at or below the watermark.
RECURSIVE EvictLoop(_, _)
EvictLoop(entries, totalSize) ==
  IF entries = <<>> THEN <<>>
  ELSE LET rest == totalSize - Head(entries).size
       IN  IF rest <= Watermark
             THEN <<Head(entries).url>>
             ELSE <<Head(entries).url>> \o EvictLoop(Tail(entries), rest)

\* cleanupCache that starts evicting above the watermark already.
SweepUrls_AboveWatermark(entries) ==
  IF SumSizes(entries) > Watermark
    THEN EvictLoop(SortByTimestamp(entries), SumSizes(entries))
    ELSE <<>>

\* cleanupCache that never evicts.
SweepUrls_NoEviction(entries) == <<>>

\* What the onsuccess callback of cleanupCache decides to delete.
SweepUrls(entries) ==
  IF SumSizes(entries) > MAX_CACHE_SIZE
    THEN EvictLoop(SortByTimestamp(entries), SumSizes(entries))
    ELSE <<>>

\* An object store without the key path: a put never replaces a record.
Put_Adds(s, e) == s \cup {e}

\* store.add for store.put: a record whose key is already stored is kept.
Put_KeepsExisting(s, e) == IF \E x \in s : x.url = e.url THEN s ELSE s \cup {e}

\* store.put: the record replaces the one with the same key (keyPath 'url').
Put(s, e) == {x \in s : x.url # e.url} \cup {e}

\* store.clear() for store.delete(key).
Delete_ClearsStore(s, url) == {}

Delete(s, url) == {x \in s : x.url # url}

RECURSIVE DeleteAll(_, _)
DeleteAll(s, urls) ==
  IF urls = <<>> THEN s ELSE DeleteAll(Delete(s, Head(urls)), Tail(urls))

Lookup(s, url) == {x \in s : x.url = url}

TotalSize(s) == SumSizes(GetAll(s))

\* -------------------------------------------------------------------- state

VARIABLES
  faults,     \* the storage can fail: an open request, db.transaction,
              \* a request or a transaction may end in an error
  supported,  \* 'indexedDB' in window
  store,      \* the records of the object store 'videos'
  now,        \* Date.now()
  openq,      \* pending indexedDB.open requests, oldest first
  txq,        \* created transactions that have not run, oldest first
  call        \* per caller: the exported function it runs and where it is

vars == <<faults, supported, store, now, openq, txq, call>>

NoEntry == CachedVideo(<<>>, NoBlob, 0 - 1)

NoStats == [totalSize |-> 0, entryCount |-> 0, isSupported |-> FALSE]

\* A caller that runs nothing.  db is the function's local `db` (FALSE: null),
\* blob the payload it holds, ret/url/stats what it returned, inner and err
\* how fetchVideoWithCache ended inside getCachedVideoUrl.  age is
\* now - request.result.timestamp as the lookup computed it (-1: no record,
\* or the request failed), populate how cacheVideo ended and storedAt the
\* timestamp of the record it put (-1: none).  In loadVideo,
\* cached is what its isVideoCached answered and cachedAge the age that
\* isVideoCached computed.
Idle ==
  [op |-> "none", path |-> <<>>, pc |-> "idle", db |-> FALSE, blob |-> NoBlob,
   ret |-> "none", inner |-> "none", err |-> "none", url |-> <<>>, stats |-> NoStats,
   age |-> 0 - 1, populate |-> "none", storedAt |-> 0 - 1,
   cached |-> "none", cachedAge |-> 0 - 1]

Tx(kind, who, url, entry, urls, snap) ==
  [kind |-> kind, who |-> who, url |-> url, entry |-> entry, urls |-> urls,
   snap |-> snap]

\* An open request waits for a caller, or for a deleteCachedVideo nobody awaits.
Waiter(who, path) == [who |-> who, path |-> path]

IsReadonly(tx) == tx.kind \in {"get", "getAll", "sweep"}

\* The transaction at position i can start.
CanRun(i) ==
  /\ i \in 1..Len(txq)
  /\ IF IsReadonly(txq[i])
       THEN \A j \in 1..(i - 1) : IsReadonly(txq[j])
       ELSE i = 1

Remove(q, i) == SubSeq(q, 1, i - 1) \o SubSeq(q, i + 1, Len(q))

\* How a storage step can end: as the code expects, or, when the storage can
\* fail, with one of its errors.
Outcomes(ok, bad) == IF faults THEN ok \cup bad ELSE ok

\* The work no caller waits for: the open requests of the deleteCachedVideo
\* calls that isVideoCached started, and the transactions of sweeps, puts,
\* deletes and clears.
Detached ==
  Cardinality({i \in 1..Len(openq) : openq[i].who = "-"})
    + Cardinality({i \in 1..Len(txq) : txq[i].who = "-"})

\* The caller p may start a call.
CanStart(p) ==
  /\ call[p].pc = "idle"
  /\ Detached <= MaxPending

Init ==
  /\ faults \in BOOLEAN
  /\ supported \in BOOLEAN
  /\ store = {}
  /\ now = 0
  /\ openq = <<>>
  /\ txq = <<>>
  /\ call = [p \in Callers |-> Idle]

\* ------------------------------------------------------------ expiry policy

\* isExpired with >= for >: a record expires already at the age of expiryTime.
isExpired_AtTtl(timestamp) == now - timestamp >= expiryTime

isExpired(timestamp) == now - timestamp > expiryTime

\* ------------------------------------------- fetchVideoWithCache and wrapper

\* getCachedVideoUrl without its catch: the error of fetchVideoWithCache
\* reaches the caller.
getCachedVideoUrl_NoCatch(c) ==
  IF c.inner = "threw"
    THEN [c EXCEPT !.pc = "done", !.ret = "throw"]
    ELSE [c EXCEPT !.pc = "done", !.ret = "objectURL",
                   !.url = <<"blob:", c.blob.body>>]

\* getCachedVideoUrl(videoPath) awaits fetchVideoWithCache(videoPath): it
\* returns the object URL of the blob, or on any error the direct URL of
\* the path.  c.inner is how fetchVideoWithCache ended.
getCachedVideoUrl(c) ==
  IF c.inner = "threw"
    THEN [c EXCEPT !.pc = "done", !.ret = "url", !.url = getVideoUrl(c.path)]
    ELSE [c EXCEPT !.pc = "done", !.ret = "objectURL",
                   !.url = <<"blob:", c.blob.body>>]

\* fetchVideoWithCache returns blob to getCachedVideoUrl.
Returns(c, blob) ==
  getCachedVideoUrl([c EXCEPT !.inner = "returned", !.blob = blob])

\* fetchVideoWithCache throws err to getCachedVideoUrl.
Throws(c, err) ==
  getCachedVideoUrl([c EXCEPT !.inner = "threw", !.err = err])

\* getCachedVideoUrl(videoPath) up to the open request of getCachedVideo,
\* the first await of fetchVideoWithCache.
StartFetch(p, videoPath) ==
  /\ CanStart(p)
  /\ LET c == [Idle EXCEPT !.op = "getCachedVideoUrl", !.path = videoPath]
     IN  IF supported
           THEN /\ openq' = Append(openq, Waiter(p, videoPath))
                /\ call' = [call EXCEPT ![p] = [c EXCEPT !.pc = "gcv_open"]]
           ELSE /\ openq' = openq
                /\ call' = [call EXCEPT ![p] = [c EXCEPT !.pc = "fetch"]]
  /\ UNCHANGED <<faults, supported, store, now, txq>>

\* getCachedVideo after getVideoCache(): null gives a miss; otherwise the
\* readonly transaction and its get request are created (db.transaction
\* runs in the Promise executor, so its exception rejects the promise).
GetCachedVideoOpened(p) ==
  /\ call[p].pc = "gcv_open"
  /\ openq # <<>> /\ Head(openq).who = p
  /\ openq' = Tail(openq)
  /\ \E outcome \in Outcomes({"db"}, {"null", "txThrows"}) :
       CASE outcome = "db" ->
              /\ txq' = Append(txq, Tx("get", p, getVideoUrl(call[p].path),
                                       NoEntry, <<>>, <<>>))
              /\ call' = [call EXCEPT ![p].pc = "gcv_get", ![p].db = TRUE]
         [] outcome = "null" ->
              /\ txq' = txq
              /\ call' = [call EXCEPT ![p].pc = "fetch", ![p].db = FALSE]
         [] outcome = "txThrows" ->
              /\ txq' = txq
              /\ call' = [call EXCEPT
                            ![p] = Throws([call[p] EXCEPT !.db = TRUE], "storage")]
  /\ UNCHANGED <<faults, supported, store, now>>

\* getCachedVideo that refreshes the record it serves: a hit puts the record
\* back with the time of the read.
GetCachedVideoResult_Touch(p, i) ==
  /\ call[p].pc = "gcv_get"
  /\ CanRun(i) /\ txq[i].kind = "get" /\ txq[i].who = p
  /\ \E outcome \in Outcomes({"success"}, {"error"}) :
       LET found == Lookup(store, txq[i].url)
       IN  IF outcome = "success" /\ found # {}
             THEN LET result == CHOOSE e \in found : TRUE
                  IN  IF ~isExpired(result.timestamp)
                        THEN /\ txq' = Append(Remove(txq, i),
                                              Tx("put", "-", result.url,
                                                 CachedVideo(result.url, result.blob, now),
                                                 <<>>, <<>>))
                             /\ call' = [call EXCEPT
                                  ![p] = Returns([call[p] EXCEPT
                                           !.age = now - result.timestamp], result.blob)]
                        ELSE /\ txq' = Remove(txq, i)
                             /\ call' = [call EXCEPT ![p].pc = "fetch",
                                           ![p].age = now - result.timestamp]
             ELSE /\ txq' = Remove(txq, i)
                  /\ call' = [call EXCEPT ![p].pc = "fetch"]
  /\ UNCHANGED <<faults, supported, store, now, openq>>

\* The get request of getCachedVideo completes: onsuccess resolves the blob
\* of a record that is not expired and null otherwise; onerror resolves null.
GetCachedVideoResult(p, i) ==
  /\ call[p].pc = "gcv_get"
  /\ CanRun(i) /\ txq[i].kind = "get" /\ txq[i].who = p
  /\ txq' = Remove(txq, i)
  /\ \E outcome \in Outcomes({"success"}, {"error"}) :
       LET found == Lookup(store, txq[i].url)
       IN  IF outcome = "success" /\ found # {}
             THEN LET result == CHOOSE e \in found : TRUE
                  IN  IF ~isExpired(result.timestamp)
                        THEN call' = [call EXCEPT
                               ![p] = Returns([call[p] EXCEPT
                                        !.age = now - result.timestamp], result.blob)]
                        ELSE call' = [call EXCEPT ![p].pc = "fetch",
                                        ![p].age = now - result.timestamp]
             ELSE call' = [call EXCEPT ![p].pc = "fetch"]
  /\ UNCHANGED <<faults, supported, store, now, openq>>

\* cacheVideo without its try/catch: what the body throws rejects the promise.
CacheVideo_NoCatch(thrown) == IF thrown THEN "rejected" ELSE "resolved"

\* The try/catch of cacheVideo: whatever cleanupCache, db.transaction or
\* store.put throw is logged, and the promise of cacheVideo resolves.
CacheVideoSettles(thrown) == "resolved"

\* fetch(url) answers.  A rejected request and a response that is not ok
\* both throw; a response that is ok gives the blob, and cacheVideo starts.
NetworkResponse(p) ==
  /\ call[p].pc = "fetch"
  /\ \E outcome \in {"ok", "notOk", "rejects"} :
       IF outcome = "ok"
         THEN \E blob \in Blobs :
                IF supported
                  THEN /\ openq' = Append(openq, Waiter(p, call[p].path))
                       /\ call' = [call EXCEPT ![p].pc = "cv_open",
                                               ![p].blob = blob]
                  ELSE /\ openq' = openq
                       /\ call' = [call EXCEPT
                            ![p] = Returns([call[p] EXCEPT !.db = FALSE,
                                              !.populate = "skipped"], blob)]
         ELSE /\ openq' = openq
              /\ call' = [call EXCEPT ![p] = Throws(call[p], "network")]
  /\ UNCHANGED <<faults, supported, store, now, txq>>

\* cacheVideo after its getVideoCache(): null returns; otherwise
\* cleanupCache() is called, which awaits its own getVideoCache().
CacheVideoOpened(p) ==
  /\ call[p].pc = "cv_open"
  /\ openq # <<>> /\ Head(openq).who = p
  /\ \E outcome \in Outcomes({"db"}, {"null"}) :
       IF outcome = "db"
         THEN /\ openq' = Append(Tail(openq), Waiter(p, call[p].path))
              /\ call' = [call EXCEPT ![p].pc = "cl_open", ![p].db = TRUE]
         ELSE /\ openq' = Tail(openq)
              /\ call' = [call EXCEPT
                   ![p] = Returns([call[p] EXCEPT !.db = FALSE,
                                     !.populate = "skipped"], call[p].blob)]
  /\ UNCHANGED <<faults, supported, store, now, txq>>

\* cleanupCache after its getVideoCache(): it creates the readonly
\* transaction with the getAll request, sets onsuccess and returns without
\* waiting for it.  cacheVideo goes on in the same task: it creates the
\* readwrite transaction and puts the record, and fetchVideoWithCache returns.
CleanupOpened(p) ==
  /\ call[p].pc = "cl_open"
  /\ openq # <<>> /\ Head(openq).who = p
  /\ openq' = Tail(openq)
  /\ \E cleanup \in Outcomes({"sweep"}, {"null", "txThrows"}),
        put \in Outcomes({"queued"}, {"txThrows", "putThrows"}) :
       LET c      == call[p]
           url    == getVideoUrl(c.path)
           swept  == IF cleanup = "sweep"
                       THEN Append(txq, Tx("sweep", "-", <<>>, NoEntry, <<>>, <<>>))
                       ELSE txq
           thrown == put # "queued"
           after  == [c EXCEPT !.populate = IF thrown THEN "threw" ELSE "queued",
                               !.storedAt = IF thrown THEN 0 - 1 ELSE now]
       IN  /\ txq' = IF thrown
                       THEN swept
                       ELSE Append(swept, Tx("put", "-", url,
                                             CachedVideo(url, c.blob, now),
                                             <<>>, <<>>))
           /\ call' = [call EXCEPT ![p] =
                         IF CacheVideoSettles(thrown) = "resolved"
                           THEN Returns(after, c.blob)
                           ELSE Throws(after, "storage")]
  /\ UNCHANGED <<faults, supported, store, now>>

\* ------------------------------------------------- transactions that run

\* The getAll of cleanupCache succeeds: over budget, the callback creates the
\* delete transaction and issues its deletes.  A failed request has no
\* handler, and an exception of db.transaction is lost with the callback.
RunSweep(i) ==
  /\ CanRun(i) /\ txq[i].kind = "sweep"
  /\ \E outcome \in Outcomes({"success"}, {"error", "txThrows"}) :
       LET entries == GetAll(store)
           urls    == SweepUrls(entries)
       IN  IF outcome = "success" /\ urls # <<>>
             THEN txq' = Append(Remove(txq, i),
                                Tx("evict", "-", <<>>, NoEntry, urls, entries))
             ELSE txq' = Remove(txq, i)
  /\ UNCHANGED <<faults, supported, store, now, openq, call>>

\* The deletes of a sweep commit together, or the transaction aborts.
RunEvict ==
  /\ CanRun(1) /\ txq[1].kind = "evict"
  /\ txq' = Tail(txq)
  /\ \E outcome \in Outcomes({"commit"}, {"abort"}) :
       store' = IF outcome = "commit" THEN DeleteAll(store, txq[1].urls)
                                      ELSE store
  /\ UNCHANGED <<faults, supported, now, openq, call>>

RunPut ==
  /\ CanRun(1) /\ txq[1].kind = "put"
  /\ txq' = Tail(txq)
  /\ \E outcome \in Outcomes({"commit"}, {"abort"}) :
       store' = IF outcome = "commit" THEN Put(store, txq[1].entry) ELSE store
  /\ UNCHANGED <<faults, supported, now, openq, call>>

RunDelete ==
  /\ CanRun(1) /\ txq[1].kind = "delete"
  /\ txq' = Tail(txq)
  /\ \E outcome \in Outcomes({"commit"}, {"abort"}) :
       store' = IF outcome = "commit" THEN Delete(store, txq[1].url) ELSE store
  /\ UNCHANGED <<faults, supported, now, openq, call>>

\* store.delete of the first key for store.clear(): the other records stay.
RunClear_OneKey ==
  /\ CanRun(1) /\ txq[1].kind = "clear"
  /\ txq' = Tail(txq)
  /\ \E outcome \in Outcomes({"commit"}, {"abort"}) :
       store' = IF outcome = "commit" THEN Delete(store, UrlOrder[1]) ELSE store
  /\ UNCHANGED <<faults, supported, now, openq, call>>

\* The clear of clearVideoCache commits, or the transaction aborts.
RunClear ==
  /\ CanRun(1) /\ txq[1].kind = "clear"
  /\ txq' = Tail(txq)
  /\ \E outcome \in Outcomes({"commit"}, {"abort"}) :
       store' = IF outcome = "commit" THEN {} ELSE store
  /\ UNCHANGED <<faults, supported, now, openq, call>>

\* ------------------------------------------------------------ isVideoCached

\* isVideoCached with the wrong answer for a missing database.
isVideoCachedNoDb_True == "true"

\* What isVideoCached answers without a database.
isVideoCachedNoDb == "false"

\* isVideoCached resolves answer.  loadVideo (ExerciseCard) goes on in the
\* same task with getCachedVideoUrl(videoPath), up to the open request of
\* getCachedVideo.
IsVideoCachedResolves(c, answer) ==
  IF c.op = "loadVideo"
    THEN [c EXCEPT !.pc = "gcv_open", !.cached = answer, !.cachedAge = c.age,
                   !.age = 0 - 1]
    ELSE [c EXCEPT !.pc = "done", !.ret = answer]

\* isVideoCached rejects: the catch of loadVideo shows the fallback URL.
IsVideoCachedRejects(c) ==
  IF c.op = "loadVideo"
    THEN [c EXCEPT !.pc = "done", !.ret = "fallback", !.err = "storage"]
    ELSE [c EXCEPT !.pc = "done", !.ret = "throw", !.err = "storage"]

\* The open queue once the caller p, with the record c, has gone on.
GoesOn(p, c, oq) ==
  IF c.pc \in {"gcv_open", "gcs_open"} THEN Append(oq, Waiter(p, c.path)) ELSE oq

StartIsVideoCached(p, videoPath) ==
  /\ CanStart(p)
  /\ LET c == [Idle EXCEPT !.op = "isVideoCached", !.path = videoPath]
     IN  IF supported
           THEN /\ openq' = Append(openq, Waiter(p, videoPath))
                /\ call' = [call EXCEPT ![p] = [c EXCEPT !.pc = "ivc_open"]]
           ELSE /\ openq' = openq
                /\ call' = [call EXCEPT ![p] =
                              [c EXCEPT !.pc = "done", !.ret = isVideoCachedNoDb]]
  /\ UNCHANGED <<faults, supported, store, now, txq>>

IsVideoCachedOpened(p) ==
  /\ call[p].pc = "ivc_open"
  /\ openq # <<>> /\ Head(openq).who = p
  /\ \E outcome \in Outcomes({"db"}, {"null", "txThrows"}) :
       CASE outcome = "db" ->
              /\ openq' = Tail(openq)
              /\ txq' = Append(txq, Tx("get", p, getVideoUrl(call[p].path),
                                       NoEntry, <<>>, <<>>))
              /\ call' = [call EXCEPT ![p].pc = "ivc_get", ![p].db = TRUE]
         [] outcome = "null" ->
              LET c == IsVideoCachedResolves([call[p] EXCEPT !.db = FALSE],
                                             isVideoCachedNoDb)
              IN  /\ openq' = GoesOn(p, c, Tail(openq))
                  /\ txq' = txq
                  /\ call' = [call EXCEPT ![p] = c]
         [] outcome = "txThrows" ->
              /\ openq' = Tail(openq)
              /\ txq' = txq
              /\ call' = [call EXCEPT ![p] =
                            IsVideoCachedRejects([call[p] EXCEPT !.db = TRUE])]
  /\ UNCHANGED <<faults, supported, store, now>>

\* The get request of isVideoCached completes: an expired record starts
\* deleteCachedVideo(videoPath), which nobody awaits, and resolves false.
IsVideoCachedResult(p, i) ==
  /\ call[p].pc = "ivc_get"
  /\ CanRun(i) /\ txq[i].kind = "get" /\ txq[i].who = p
  /\ txq' = Remove(txq, i)
  /\ \E outcome \in Outcomes({"success"}, {"error"}) :
       LET found == Lookup(store, txq[i].url)
       IN  IF outcome = "success" /\ found # {}
             THEN LET result == CHOOSE e \in found : TRUE
                      aged   == [call[p] EXCEPT !.age = now - result.timestamp]
                  IN  IF now - result.timestamp > expiryTime
                        THEN LET c == IsVideoCachedResolves(aged, "false")
                             IN  /\ openq' = GoesOn(p, c,
                                      Append(openq, Waiter("-", call[p].path)))
                                 /\ call' = [call EXCEPT ![p] = c]
                        ELSE LET c == IsVideoCachedResolves(aged, "true")
                             IN  /\ openq' = GoesOn(p, c, openq)
                                 /\ call' = [call EXCEPT ![p] = c]
             ELSE LET c == IsVideoCachedResolves(call[p], "false")
                  IN  /\ openq' = GoesOn(p, c, openq)
                      /\ call' = [call EXCEPT ![p] = c]
  /\ UNCHANGED <<faults, supported, store, now>>

\* -------------------------------------------------------- deleteCachedVideo

StartDelete(p, videoPath) ==
  /\ CanStart(p)
  /\ LET c == [Idle EXCEPT !.op = "deleteCachedVideo", !.path = videoPath]
     IN  IF supported
           THEN /\ openq' = Append(openq, Waiter(p, videoPath))
                /\ call' = [call EXCEPT ![p] = [c EXCEPT !.pc = "del_open"]]
           ELSE /\ openq' = openq
                /\ call' = [call EXCEPT ![p] =
                              [c EXCEPT !.pc = "done", !.ret = "void"]]
  /\ UNCHANGED <<faults, supported, store, now, txq>>

\* deleteCachedVideo after getVideoCache(): it creates the readwrite
\* transaction, issues the delete and returns without waiting for it.
DeleteOpened(p) ==
  /\ call[p].pc = "del_open"
  /\ openq # <<>> /\ Head(openq).who = p
  /\ openq' = Tail(openq)
  /\ \E outcome \in Outcomes({"db"}, {"null", "txThrows"}) :
       CASE outcome = "db" ->
              /\ txq' = Append(txq, Tx("delete", "-", getVideoUrl(call[p].path),
                                       NoEntry, <<>>, <<>>))
              /\ call' = [call EXCEPT ![p].pc = "done", ![p].db = TRUE,
                                      ![p].ret = "void"]
         [] outcome = "null" ->
              /\ txq' = txq
              /\ call' = [call EXCEPT ![p].pc = "done", ![p].db = FALSE,
                                      ![p].ret = "void"]
         [] outcome = "txThrows" ->
              /\ txq' = txq
              /\ call' = [call EXCEPT ![p].pc = "done", ![p].db = TRUE,
                                      ![p].ret = "throw", ![p].err = "storage"]
  /\ UNCHANGED <<faults, supported, store, now>>

\* deleteCachedVideo with store.delete(videoPath): the path, not its key.
DetachedDeleteOpened_RawPath ==
  /\ openq # <<>> /\ Head(openq).who = "-"
  /\ openq' = Tail(openq)
  /\ \E outcome \in Outcomes({"db"}, {"null", "txThrows"}) :
       txq' = IF outcome = "db"
                THEN Append(txq, Tx("delete", "-", Head(openq).path,
                                    NoEntry, <<>>, <<>>))
                ELSE txq
  /\ UNCHANGED <<faults, supported, store, now, call>>

\* The same for the deleteCachedVideo that isVideoCached started.
DetachedDeleteOpened ==
  /\ openq # <<>> /\ Head(openq).who = "-"
  /\ openq' = Tail(openq)
  /\ \E outcome \in Outcomes({"db"}, {"null", "txThrows"}) :
       txq' = IF outcome = "db"
                THEN Append(txq, Tx("delete", "-", getVideoUrl(Head(openq).path),
                                    NoEntry, <<>>, <<>>))
                ELSE txq
  /\ UNCHANGED <<faults, supported, store, now, call>>

\* ---------------------------------------------------------- clearVideoCache

StartClear(p) ==
  /\ CanStart(p)
  /\ LET c == [Idle EXCEPT !.op = "clearVideoCache"]
     IN  IF supported
           THEN /\ openq' = Append(openq, Waiter(p, <<>>))
                /\ call' = [call EXCEPT ![p] = [c EXCEPT !.pc = "clr_open"]]
           ELSE /\ openq' = openq
                /\ call' = [call EXCEPT ![p] =
                              [c EXCEPT !.pc = "done", !.ret = "void"]]
  /\ UNCHANGED <<faults, supported, store, now, txq>>

\* clearVideoCache returns.  handleClearCache (CacheManager) goes on in the
\* same task with loadStats(), up to the open request of getCacheStats.
ClearVideoCacheReturns(c) ==
  IF c.op = "handleClearCache"
    THEN [c EXCEPT !.pc = "gcs_open"]
    ELSE [c EXCEPT !.pc = "done", !.ret = "void"]

\* clearVideoCache after getVideoCache(): it creates the readwrite
\* transaction, issues the clear and returns without waiting for it; its
\* catch takes what db.transaction throws.
ClearOpened(p) ==
  /\ call[p].pc = "clr_open"
  /\ openq # <<>> /\ Head(openq).who = p
  /\ \E outcome \in Outcomes({"db"}, {"null", "txThrows"}) :
       LET c == ClearVideoCacheReturns([call[p] EXCEPT !.db = (outcome # "null")])
       IN  /\ openq' = GoesOn(p, c, Tail(openq))
           /\ txq' = IF outcome = "db"
                       THEN Append(txq, Tx("clear", "-", <<>>, NoEntry, <<>>, <<>>))
                       ELSE txq
           /\ call' = [call EXCEPT ![p] = c]
  /\ UNCHANGED <<faults, supported, store, now>>

\* ------------------------------------------------------------ getCacheStats

\* The statistics getCacheStats reports when getVideoCache() gave null.
StatsNoDb == [totalSize |-> 0, entryCount |-> 0, isSupported |-> TRUE]

\* getCacheStats that leaves the expired records out of its totals.
StatsOf_Unexpired(entries) ==
  LET fresh == SelectSeq(entries, LAMBDA e : ~isExpired(e.timestamp))
  IN  [totalSize |-> SumSizes(fresh), entryCount |-> Len(fresh),
       isSupported |-> TRUE]

StatsOf(entries) ==
  [totalSize |-> SumSizes(entries), entryCount |-> Len(entries),
   isSupported |-> TRUE]

StartStats(p) ==
  /\ CanStart(p)
  /\ LET c == [Idle EXCEPT !.op = "getCacheStats"]
     IN  IF supported
           THEN /\ openq' = Append(openq, Waiter(p, <<>>))
                /\ call' = [call EXCEPT ![p] = [c EXCEPT !.pc = "gcs_open"]]
           ELSE /\ openq' = openq
                /\ call' = [call EXCEPT ![p] =
                              [c EXCEPT !.pc = "done", !.ret = "stats",
                                        !.stats = NoStats]]
  /\ UNCHANGED <<faults, supported, store, now, txq>>

StatsOpened(p) ==
  /\ call[p].pc = "gcs_open"
  /\ openq # <<>> /\ Head(openq).who = p
  /\ openq' = Tail(openq)
  /\ \E outcome \in Outcomes({"db"}, {"null", "txThrows"}) :
       CASE outcome = "db" ->
              /\ txq' = Append(txq, Tx("getAll", p, <<>>, NoEntry, <<>>, <<>>))
              /\ call' = [call EXCEPT ![p].pc = "gcs_getAll", ![p].db = TRUE]
         [] outcome = "null" ->
              /\ txq' = txq
              /\ call' = [call EXCEPT ![p].pc = "done", ![p].db = FALSE,
                                      ![p].ret = "stats", ![p].stats = StatsNoDb]
         [] outcome = "txThrows" ->
              /\ txq' = txq
              /\ call' = [call EXCEPT ![p].pc = "done", ![p].db = TRUE,
                                      ![p].ret = "stats",
                                      ![p].stats = [StatsOf(<<>>) EXCEPT
                                                      !.isSupported = TRUE]]
  /\ UNCHANGED <<faults, supported, store, now>>

StatsResult(p, i) ==
  /\ call[p].pc = "gcs_getAll"
  /\ CanRun(i) /\ txq[i].kind = "getAll" /\ txq[i].who = p
  /\ txq' = Remove(txq, i)
  /\ \E outcome \in Outcomes({"success"}, {"error"}) :
       call' = [call EXCEPT ![p].pc = "done", ![p].ret = "stats",
                  ![p].stats = IF outcome = "success"
                                 THEN StatsOf(GetAll(store))
                                 ELSE StatsOf(<<>>)]
  /\ UNCHANGED <<faults, supported, store, now, openq>>

\* ------------------------------------------------------------- environment

\* Time passes: a second, or a whole expiry period.
Tick(d) ==
  /\ now + d <= expiryTime + MaxLate
  /\ (now + d) % expiryTime <= MaxLate
  /\ now' = now + d
  /\ UNCHANGED <<faults, supported, store, openq, txq, call>>

\* The caller takes the result; it may call again.
Return(p) ==
  /\ call[p].pc = "done"
  /\ call' = [call EXCEPT ![p] = Idle]
  /\ UNCHANGED <<faults, supported, store, now, openq, txq>>

Step(p) ==
  \/ \E videoPath \in Paths : StartFetch(p, videoPath)
  \/ GetCachedVideoOpened(p)
  \/ \E i \in 1..Len(txq) : GetCachedVideoResult(p, i)
  \/ NetworkResponse(p)
  \/ CacheVideoOpened(p)
  \/ CleanupOpened(p)
  \/ \E videoPath \in Paths : StartIsVideoCached(p, videoPath)
  \/ IsVideoCachedOpened(p)
  \/ \E i \in 1..Len(txq) : IsVideoCachedResult(p, i)
  \/ \E videoPath \in Paths : StartDelete(p, videoPath)
  \/ DeleteOpened(p)
  \/ StartClear(p)
  \/ ClearOpened(p)
  \/ StartStats(p)
  \/ StatsOpened(p)
  \/ \E i \in 1..Len(txq) : StatsResult(p, i)
  \/ Return(p)

Background ==
  \/ \E i \in 1..Len(txq) : RunSweep(i)
  \/ RunEvict
  \/ RunPut
  \/ RunDelete
  \/ RunClear
  \/ DetachedDeleteOpened
  \/ \E d \in {1, expiryTime} : Tick(d)

\* One caller at a time: a call starts when the previous one has returned.
\* The work a call leaves behind (its put, its sweep, a delete nobody
\* awaits) still overlaps the next call.
Next == (\E p \in SeqCallers : Step(p)) \/ Background

Spec == Init /\ [][Next]_vars

\* ------------------------------------------------------- the UI components

\* loadVideo of ExerciseCard: await isVideoCached(video_path), then await
\* getCachedVideoUrl(video_path).  Without IndexedDB isVideoCached answers
\* at once, and so does the getCachedVideo of fetchVideoWithCache.
StartLoadVideo(p, videoPath) ==
  /\ CanStart(p)
  /\ LET c == [Idle EXCEPT !.op = "loadVideo", !.path = videoPath]
     IN  IF supported
           THEN /\ openq' = Append(openq, Waiter(p, videoPath))
                /\ call' = [call EXCEPT ![p] = [c EXCEPT !.pc = "ivc_open"]]
           ELSE /\ openq' = openq
                /\ call' = [call EXCEPT ![p] =
                              [c EXCEPT !.pc = "fetch",
                                        !.cached = isVideoCachedNoDb]]
  /\ UNCHANGED <<faults, supported, store, now, txq>>

\* handleClearCache of CacheManager: await clearVideoCache(), then await
\* loadStats(), which awaits getCacheStats().
StartHandleClearCache(p) ==
  /\ CanStart(p)
  /\ LET c == [Idle EXCEPT !.op = "handleClearCache"]
     IN  IF supported
           THEN /\ openq' = Append(openq, Waiter(p, <<>>))
                /\ call' = [call EXCEPT ![p] = [c EXCEPT !.pc = "clr_open"]]
           ELSE /\ openq' = openq
                /\ call' = [call EXCEPT ![p] =
                              [c EXCEPT !.pc = "done", !.ret = "stats",
                                        !.stats = NoStats]]
  /\ UNCHANGED <<faults, supported, store, now, txq>>

UiStep(p) ==
  \/ \E videoPath \in Paths : StartLoadVideo(p, videoPath)
  \/ IsVideoCachedOpened(p)
  \/ \E i \in 1..Len(txq) : IsVideoCachedResult(p, i)
  \/ GetCachedVideoOpened(p)
  \/ \E i \in 1..Len(txq) : GetCachedVideoResult(p, i)
  \/ NetworkResponse(p)
  \/ CacheVideoOpened(p)
  \/ CleanupOpened(p)
  \/ StartHandleClearCache(p)
  \/ ClearOpened(p)
  \/ StatsOpened(p)
  \/ \E i \in 1..Len(txq) : StatsResult(p, i)
  \/ Return(p)

\* The components call one after the other; what a call leaves behind
\* still overlaps the next call.
UiNext == (\E p \in SeqCallers : UiStep(p)) \/ Background

UiSpec == Init /\ [][UiNext]_vars

\* -------------------------------------------------------- concurrent calls

\* The stores that earlier calls can have left at time 0: at most one record
\* for each path.
StoresAtStart ==
  {S \in SUBSET {CachedVideo(getVideoUrl(q), b, 0) : q \in Paths, b \in Blobs} :
     \A e, f \in S : e.url = f.url => e = f}

\* Two ExerciseCards mount together, on a store earlier calls have filled.
ConcInit ==
  /\ faults = FALSE
  /\ supported = TRUE
  /\ store \in StoresAtStart
  /\ now = 0
  /\ openq = <<>>
  /\ txq = <<>>
  /\ call = [p \in Callers |-> Idle]

FetchStep(p) ==
  \/ \E videoPath \in Paths : StartFetch(p, videoPath)
  \/ GetCachedVideoOpened(p)
  \/ \E i \in 1..Len(txq) : GetCachedVideoResult(p, i)
  \/ NetworkResponse(p)
  \/ CacheVideoOpened(p)
  \/ CleanupOpened(p)

\* Each of the two callers calls getCachedVideoUrl once; the calls
\* interleave at every await.
ConcNext ==
  \/ \E p \in Callers : FetchStep(p)
  \/ \E i \in 1..Len(txq) : RunSweep(i)
  \/ RunEvict
  \/ RunPut
  \/ \E d \in {1, expiryTime} : Tick(d)

ConcSpec == ConcInit /\ [][ConcNext]_vars

\* -------------------------------------------------- first call on a new store

\* CacheManager reads the statistics, any number of times.
StatsStep(p) ==
  \/ StartStats(p)
  \/ StatsOpened(p)
  \/ \E i \in 1..Len(txq) : StatsResult(p, i)
  \/ Return(p)

\* On a store that was just created one ExerciseCard calls getCachedVideoUrl
\* once, while CacheManager reads the statistics.  No sweep finds anything to
\* delete.
FirstNext ==
  \/ FetchStep("c1")
  \/ StatsStep("c2")
  \/ \E i \in 1..Len(txq) : RunSweep(i)
  \/ RunPut
  \/ \E d \in {1, expiryTime} : Tick(d)

FirstSpec == Init /\ [][FirstNext]_vars

\* ------------------------------------------------------- one sweep by itself

\* The paths of the records a sweep is tried on, in key order.
SweepPaths == <<<<"v1">>, <<"v2">>, <<"v3">>, <<"v4">>, <<"v5">>>>

\* Their sizes: 0.1, 0.3, 0.5 and 0.8 of MAX_CACHE_SIZE, and one byte more
\* than MAX_CACHE_SIZE.
SweepBlobs ==
  {[body |-> "tenths", size |-> k * (MAX_CACHE_SIZE \div 10)] : k \in {1, 3, 5, 8}}
    \cup {[body |-> "huge", size |-> MAX_CACHE_SIZE + 1]}

\* What getAll() can return to cleanupCache: records in key order, the i-th
\* with the blob and the timestamp f[i].
Snapshot(f) ==
  [i \in DOMAIN f |-> CachedVideo(getVideoUrl(SweepPaths[i]), f[i][1], f[i][2])]

\* The getAll of a cleanupCache call is about to succeed with a snapshot of up
\* to MaxSnapshot records, of any of the sizes, written at any of three
\* times: the records of the store.
SweepInit ==
  /\ faults = FALSE
  /\ supported = TRUE
  /\ now = 2
  /\ openq = <<>>
  /\ call = [p \in Callers |-> Idle]
  /\ \E n \in 0..MaxSnapshot :
       \E f \in [1..n -> SweepBlobs \X (0..2)] :
         /\ store = {Snapshot(f)[i] : i \in 1..n}
         /\ txq = <<Tx("sweep", "-", <<>>, NoEntry, <<>>, Snapshot(f))>>

\* request.onsuccess of cleanupCache on request.result.
SweepOnSuccess ==
  /\ txq # <<>> /\ txq[1].kind = "sweep"
  /\ LET entries == txq[1].snap
         urls    == SweepUrls(entries)
     IN  txq' = IF urls # <<>>
                  THEN <<Tx("evict", "-", <<>>, NoEntry, urls, entries)>>
                  ELSE <<>>
  /\ UNCHANGED <<faults, supported, store, now, openq, call>>

SweepNext == SweepOnSuccess \/ RunEvict

SweepSpec == SweepInit /\ [][SweepNext]_vars

\* ------------------------------------------------------------ key derivation

\* The characters of the paths key derivation is tried on.
PathChars == {"/", "a", "b"}

PathsUpTo(n) == UNION {[1..k -> PathChars] : k \in 0..n}

\* Two callers, each about to derive the key of a path of its own.
KeyInit ==
  /\ faults = FALSE
  /\ supported = FALSE
  /\ store = {}
  /\ now = 0
  /\ openq = <<>>
  /\ txq = <<>>
  /\ call \in [Callers -> {[Idle EXCEPT !.op = "getVideoUrl", !.path = q] :
                             q \in PathsUpTo(MaxPathLen)}]

\* getVideoUrl(videoPath) returns the key of the path.
DeriveKey(p) ==
  /\ call[p].op = "getVideoUrl" /\ call[p].pc = "idle"
  /\ call' = [call EXCEPT ![p].pc = "done", ![p].ret = "url",
                           ![p].url = getVideoUrl(call[p].path)]
  /\ UNCHANGED <<faults, supported, store, now, openq, txq>>

KeyNext == \E p \in Callers : DeriveKey(p)

KeySpec == KeyInit /\ [][KeyNext]_vars

\* ------------------------------------------------------------- the claims

\* Nothing is in flight: no call runs, no open request or transaction waits.
Quiescent ==
  /\ openq = <<>>
  /\ txq = <<>>
  /\ \A p \in Callers : call[p].pc \in {"idle", "done"}

KeyA == getVideoUrl(<<"/", "a">>)

KeyB == getVideoUrl(<<"b">>)

Half == MAX_CACHE_SIZE \div 2

Sixty == (MAX_CACHE_SIZE \div 5) * 3

\* The call of p went through getCachedVideoUrl and is over.
FetchDone(p) == call[p].op = "getCachedVideoUrl" /\ call[p].pc = "done"

\* The call of p was served from the cache.
Hit(p) == FetchDone(p) /\ call[p].inner = "returned" /\ call[p].populate = "none"

\* C1: capacity invariant.  Whenever every write has run to completion, the
\* sizes of the stored records sum to at most MAX_CACHE_SIZE, unless the
\* record written last is itself larger than MAX_CACHE_SIZE.
C1_CapacityInvariant ==
  Quiescent =>
    \/ TotalSize(store) <= MAX_CACHE_SIZE
    \/ \E e \in store :
         /\ e.size > MAX_CACHE_SIZE
         /\ \A f \in store : f.timestamp <= e.timestamp

\* C2: the lookup of fetchVideoWithCache is a hit exactly when the store
\* holds a record for the key whose age now - timestamp is at most
\* expiryTime when the get request succeeds; the hit returns that record's
\* blob, and a record older than expiryTime is never returned.
C2_HitExactlyWhenFresh ==
  [][\A p \in Callers :
       (call[p].pc = "gcv_get" /\ call'[p].pc # "gcv_get") =>
         LET found == Lookup(store, getVideoUrl(call[p].path))
             c     == call'[p]
             hit   == c.pc = "done" /\ c.inner = "returned"
         IN  /\ hit => \E e \in found : /\ c.age = now - e.timestamp
                                        /\ c.age <= expiryTime
                                        /\ c.blob = e.blob
             /\ c.age >= 0 => \E e \in found : c.age = now - e.timestamp
             /\ (c.age >= 0 /\ c.age <= expiryTime) => hit
             /\ c.age > expiryTime => c.pc = "fetch"
    ]_vars

\* A hit on a record that is exactly expiryTime old.
C2_HitAtExactlyTtl ==
  \E p \in Callers : Hit(p) /\ call[p].age = expiryTime

\* C3: once the network has answered with a blob, fetchVideoWithCache
\* returns that blob whatever cleanupCache, db.transaction or store.put do:
\* a call that reached cacheVideo never ends with an error.
C3_FailSoftPopulation ==
  \A p \in Callers :
    (FetchDone(p) /\ call[p].populate # "none") =>
      /\ call[p].inner = "returned"
      /\ call[p].blob \in Blobs
      /\ call[p].ret = "objectURL"

\* A call whose population threw and which still returned the blob.
C3_PutThrewAndReturned ==
  \E p \in Callers :
    FetchDone(p) /\ call[p].populate = "threw" /\ call[p].inner = "returned"

\* C4: fetchVideoWithCache throws only when the network fetch failed.
C4_ErrorOnlyOnNetworkFailure ==
  \A p \in Callers :
    (FetchDone(p) /\ call[p].inner = "threw") => call[p].err = "network"

\* C5: getCachedVideoUrl never throws: it returns the object URL of the blob
\* when fetchVideoWithCache returned, and the direct URL of the same path
\* when fetchVideoWithCache threw.
C5_UrlNeverFails ==
  \A p \in Callers :
    FetchDone(p) =>
      /\ call[p].ret \in {"objectURL", "url"}
      /\ call[p].inner = "returned" =>
           (call[p].ret = "objectURL" /\ call[p].url = <<"blob:", call[p].blob.body>>)
      /\ call[p].inner = "threw" =>
           (call[p].ret = "url" /\ call[p].url = getVideoUrl(call[p].path))

\* The network failed and the caller got the direct URL.
C5_FellBackToDirectUrl ==
  \E p \in Callers :
    /\ FetchDone(p) /\ call[p].inner = "threw" /\ call[p].err = "network"
    /\ call[p].ret = "url"

\* The steps after an await of getVideoCache() in an exported function.
OpenPcs == {"gcv_open", "cv_open", "ivc_open", "del_open", "clr_open", "gcs_open"}

\* What a call that got no database may have returned.
NoDbResult(c) ==
  CASE c.op = "isVideoCached" -> c.ret = "false"
    [] c.op = "getCachedVideoUrl" ->
         /\ c.inner = "threw" => c.err = "network"
         /\ c.inner = "returned" => (c.populate = "skipped" /\ c.blob \in Blobs)
    [] c.op \in {"deleteCachedVideo", "clearVideoCache"} -> c.ret = "void"
    [] OTHER -> TRUE

\* C6: without a database (no IndexedDB, or getVideoCache() gives null)
\* fetchVideoWithCache goes to the network and returns the fetched blob
\* (it throws only when the network failed), isVideoCached answers false,
\* and no transaction is created, so the store is not touched.
C6_UnavailableStore ==
  /\ [](~supported => (store = {} /\ openq = <<>> /\ txq = <<>>))
  /\ [](\A p \in Callers :
          (call[p].pc = "done" /\ ~call[p].db) => NoDbResult(call[p]))
  /\ [][\A p \in Callers :
          (call[p].pc \in OpenPcs /\ call'[p].pc # call[p].pc /\ ~call'[p].db) =>
            /\ store' = store
            /\ txq' = txq
            /\ call[p].pc = "gcv_open" => call'[p].pc = "fetch"
            /\ call[p].pc = "cv_open" =>
                 (call'[p].inner = "returned" /\ call'[p].blob = call[p].blob)
       ]_vars

\* A fetch whose getVideoCache() gave null: it went to the network and
\* returned the fetched blob although a record for its key is stored, and
\* it queued no put.
C6_ServedWithoutDb ==
  \E p \in Callers :
    /\ FetchDone(p) /\ ~call[p].db
    /\ call[p].inner = "returned" /\ call[p].populate = "skipped"
    /\ Lookup(store, getVideoUrl(call[p].path)) # {}
    /\ txq = <<>>

\* C7: getCacheStats reports zero sizes and isSupported = false whenever it
\* got no database, whether IndexedDB is missing or the open failed.
C7_StatsUnsupportedWithoutDb ==
  \A p \in Callers :
    (call[p].pc = "done" /\ call[p].op = "getCacheStats" /\ ~call[p].db) =>
      call[p].stats = NoStats

\* A deleteCachedVideo for the key has been started and not yet run.
DeleteStarted(oq, tq, key) ==
  \/ \E i \in 1..Len(oq) : oq[i].who = "-" /\ getVideoUrl(oq[i].path) = key
  \/ \E i \in 1..Len(tq) : tq[i].kind = "delete" /\ tq[i].url = key

\* C8: every lookup that reads an expired record, in isVideoCached and in
\* getCachedVideo alike, reports a miss and starts the removal of the record.
C8_ExpiredReadPurges ==
  [][\A p \in Callers :
       (call[p].pc \in {"gcv_get", "ivc_get"} /\ call'[p].pc # call[p].pc) =>
         LET key == getVideoUrl(call[p].path)
         IN  (call'[p].age > expiryTime) =>
               /\ call'[p].pc = "fetch" \/ call'[p].ret = "false"
               /\ DeleteStarted(openq', txq', key)
    ]_vars

RECURSIVE StrictlyAscending(_)
StrictlyAscending(entries) ==
  \/ Len(entries) <= 1
  \/ /\ entries[1].timestamp < entries[2].timestamp
     /\ StrictlyAscending(Tail(entries))

DistinctTimestamps(entries) ==
  \A i, j \in 1..Len(entries) :
    i # j => entries[i].timestamp # entries[j].timestamp

\* C9: the deletes of a sweep whose snapshot has distinct timestamps are the
\* oldest records of the snapshot, issued oldest first: every deleted record
\* is older than every record of the snapshot that is kept.
C9_EvictsOldestFirst ==
  \A i \in 1..Len(txq) :
    (txq[i].kind = "evict" /\ DistinctTimestamps(txq[i].snap)) =>
      LET snap    == txq[i].snap
          urls    == txq[i].urls
          deleted == {k \in 1..Len(snap) :
                        \E j \in 1..Len(urls) : urls[j] = snap[k].url}
      IN  /\ urls # <<>>
          /\ Cardinality(deleted) = Len(urls)
          /\ \A d \in deleted, k \in (1..Len(snap)) \ deleted :
               snap[d].timestamp < snap[k].timestamp
          /\ \A j \in 1..(Len(urls) - 1) :
               \E d, k \in deleted :
                 /\ snap[d].url = urls[j] /\ snap[k].url = urls[j + 1]
                 /\ snap[d].timestamp < snap[k].timestamp

\* A sweep that deletes the older of two records and keeps the newer, which
\* comes first in key order.
C9_SweepKeepsNewer ==
  \E i \in 1..Len(txq) :
    /\ txq[i].kind = "evict"
    /\ Len(txq[i].snap) = 2 /\ Len(txq[i].urls) = 1
    /\ txq[i].snap[1].timestamp > txq[i].snap[2].timestamp

\* C10: when the record of "/a" (half the budget) is stored and "b" is
\* fetched with a blob of 60% of the budget, the populate evicts "/a": once
\* everything has completed only the record of "b" is left.
C10_PopulateEvictsOldest ==
  \A p \in Callers :
    ( /\ Quiescent
      /\ FetchDone(p) /\ call[p].path = <<"b">>
      /\ call[p].populate = "queued" /\ call[p].blob.size = Sixty
      /\ \E e \in store : e.url = KeyB /\ e.size = Sixty ) =>
        /\ ~ \E e \in store : e.url = KeyA /\ e.size = Half
        /\ TotalSize(store) = Sixty

\* The transaction at the head of txq, of kind k, runs in this step.
Ran(k) == txq # <<>> /\ txq[1].kind = k /\ txq' = Tail(txq)

\* C11: write-then-read round trip.  A put that succeeds stores its record
\* as written; the record of a key then changes only by a later put, delete,
\* eviction or clear of that key; and a successful get of a stored record
\* that has not expired returns the payload of that record, whose size is
\* the stored size.
C11_WriteThenRead ==
  /\ [][(Ran("put") /\ (store' # store \/ ~faults)) =>
          /\ Lookup(store', txq[1].url) = {txq[1].entry}
          /\ \A k \in Urls \ {txq[1].url} : Lookup(store', k) = Lookup(store, k)
       ]_vars
  /\ [][\A k \in Urls :
          Lookup(store', k) # Lookup(store, k) =>
            \/ Ran("put") /\ txq[1].url = k
            \/ Ran("delete") /\ txq[1].url = k
            \/ Ran("evict") /\ \E j \in 1..Len(txq[1].urls) : txq[1].urls[j] = k
            \/ Ran("clear")
       ]_vars
  /\ [][\A p \in Callers :
          (call[p].pc = "gcv_get" /\ call'[p].pc # "gcv_get") =>
            \A e \in Lookup(store, getVideoUrl(call[p].path)) :
              (now - e.timestamp <= expiryTime /\ (call'[p].age >= 0 \/ ~faults)) =>
                /\ call'[p].pc = "done" /\ call'[p].inner = "returned"
                /\ call'[p].blob = e.blob
                /\ call'[p].blob.size = e.size
       ]_vars

\* A hit, one second after the put, on the record of a blob of 60% of the
\* budget: the payload returned is the one stored.
C11_ReadBackAfterPut ==
  \E p \in Callers :
    /\ Hit(p) /\ call[p].age = 1 /\ call[p].blob.size = Sixty
    /\ \E e \in Lookup(store, getVideoUrl(call[p].path)) :
         e.blob = call[p].blob /\ e.timestamp = now - 1

\* The number of separators a path starts with.
LeadingSeparators(p) ==
  Cardinality({i \in 1..Len(p) : \A j \in 1..i : p[j] = "/"})

\* The path from its first character that is not a separator.
Stripped(p) == SubSeq(p, LeadingSeparators(p) + 1, Len(p))

\* C12: key derivation.  The key of a path is API_ROOT_URL, one separator and
\* the path without its leading separators, so two calls give the same key
\* exactly when their paths are equal once the leading separators are
\* stripped: the same path always gives the same key, "/x" and "x" give the
\* same key, and paths that still differ after stripping never collide.
C12_KeyDerivation ==
  /\ \A p \in Callers :
       (call[p].op = "getVideoUrl" /\ call[p].pc = "done") =>
         call[p].url = API_ROOT_URL \o <<"/">> \o Stripped(call[p].path)
  /\ \A p, q \in Callers :
       ( /\ call[p].op = "getVideoUrl" /\ call[p].pc = "done"
         /\ call[q].op = "getVideoUrl" /\ call[q].pc = "done" ) =>
           (call[p].url = call[q].url
              <=> Stripped(call[p].path) = Stripped(call[q].path))

\* The keys of "//a" and "a" have been derived, and they are equal.
C12_SameKeyForSlashes ==
  /\ call["c1"].op = "getVideoUrl" /\ call["c1"].pc = "done"
  /\ call["c2"].op = "getVideoUrl" /\ call["c2"].pc = "done"
  /\ call["c1"].path = <<"/", "/", "a">> /\ call["c2"].path = <<"a">>
  /\ call["c1"].url = call["c2"].url

\* C13: the store holds at most one record per key, and every key is the key
\* of one of the paths: a put for a stored key replaces the record.
C13_OneEntryPerKey ==
  /\ \A e, f \in store : e.url = f.url => e = f
  /\ \A e \in store : e.url \in Urls

\* A populate found an expired record and has replaced it: the store holds
\* the new record for the key and no other.
C13_PutReplacedExpired ==
  \E p \in Callers :
    /\ FetchDone(p) /\ call[p].populate = "queued" /\ call[p].age > expiryTime
    /\ txq = <<>>
    /\ \E e \in store :
         /\ e.url = getVideoUrl(call[p].path)
         /\ e.blob = call[p].blob
         /\ e.timestamp >= expiryTime
         /\ Lookup(store, e.url) = {e}

\* The byte length of each payload the origin serves.
PayloadLength(body) ==
  CASE body = "half" -> Half
    [] body = "sixty" -> Sixty
    [] body = "huge" -> MAX_CACHE_SIZE + 1

\* C14: the size of every record, stored or about to be put, is the byte
\* length of its payload.
C14_SizeIsPayloadLength ==
  /\ \A e \in store :
       e.size = e.blob.size /\ e.size = PayloadLength(e.blob.body)
  /\ \A i \in 1..Len(txq) :
       txq[i].kind = "put" =>
         /\ txq[i].entry.size = txq[i].entry.blob.size
         /\ txq[i].entry.size = PayloadLength(txq[i].entry.blob.body)

\* Two records with payloads of different lengths are stored.
C14_TwoSizesStored ==
  \E e, f \in store :
    /\ e.blob.body = "half" /\ e.size = Half
    /\ f.blob.body = "sixty" /\ f.size = Sixty

\* C15: deleteCachedVideo is idempotent.  Its delete removes the record of
\* its key and no other record; on a key that is not stored it changes
\* nothing, so a second delete of the same key changes nothing; and the
\* call returns without an error whether or not the key is stored.
C15_DeleteIdempotent ==
  /\ [](\A k \in Urls :
          /\ Delete(store, k) = store \ Lookup(store, k)
          /\ Delete(Delete(store, k), k) = Delete(store, k))
  /\ [](\A p \in Callers :
          (call[p].op = "deleteCachedVideo" /\ call[p].pc = "done") =>
            \/ call[p].ret = "void"
            \/ faults /\ call[p].db /\ call[p].ret = "throw")
  /\ [][Ran("delete") =>
          LET found == Lookup(store, txq[1].url)
          IN  /\ store' \subseteq store
              /\ store \ store' \subseteq found
              /\ found = {} => store' = store
              /\ (store' # store \/ ~faults) => Lookup(store', txq[1].url) = {}
       ]_vars

\* deleteCachedVideo has returned and its delete is about to run on a store
\* that holds the record of its key and another record.
C15_DeleteOfStoredKeyQueued ==
  \E p \in Callers :
    /\ call[p].op = "deleteCachedVideo" /\ call[p].pc = "done"
    /\ call[p].ret = "void"
    /\ Len(txq) = 1 /\ txq[1].kind = "delete"
    /\ txq[1].url = getVideoUrl(call[p].path)
    /\ Lookup(store, txq[1].url) # {}
    /\ store # Lookup(store, txq[1].url)

\* C16: clearVideoCache removes every record whatever its age, and never
\* raises.  handleClearCache always gets to its statistics; the clear empties
\* the store when it commits and changes nothing when the storage fails;
\* on a storage that does not fail, once handleClearCache is over the store
\* is empty and the statistics it read say entryCount = 0 and totalSize = 0.
C16_ClearAllEmpties ==
  /\ [](\A p \in Callers :
          (call[p].op = "handleClearCache" /\ call[p].pc = "done") =>
            /\ call[p].ret = "stats"
            /\ ~faults =>
                 /\ store = {}
                 /\ call[p].stats.entryCount = 0
                 /\ call[p].stats.totalSize = 0)
  /\ [][Ran("clear") => (store' = {} \/ (faults /\ store' = store))]_vars

\* clearVideoCache has returned and getCacheStats waits for its records:
\* the clear is about to run on a store of two records, on a storage that
\* does not fail.
C16_ClearQueuedBeforeStats ==
  \E p \in Callers :
    /\ ~faults
    /\ call[p].op = "handleClearCache" /\ call[p].pc = "gcs_getAll"
    /\ Len(txq) = 2 /\ txq[1].kind = "clear" /\ txq[2].kind = "getAll"
    /\ Cardinality(store) = 2

\* The calls of p and q, for the same key, both found no record for it,
\* both fetched and both put a record.
BothPopulated(p, q) ==
  /\ p # q /\ FetchDone(p) /\ FetchDone(q)
  /\ getVideoUrl(call[p].path) = getVideoUrl(call[q].path)
  /\ call[p].age = 0 - 1 /\ call[q].age = 0 - 1
  /\ call[p].populate = "queued" /\ call[q].populate = "queued"

\* C17: no request coalescing.  Two concurrent calls for the same uncached
\* key both fetch and both populate, each returns the blob of its own
\* fetch, and once everything has completed the store holds one record for
\* the key: the one of the later put.
C17_LastWriteWins ==
  \A p, q \in Callers :
    (BothPopulated(p, q) /\ txq = <<>> /\ call[p].storedAt <= call[q].storedAt) =>
      /\ call[p].inner = "returned" /\ call[q].inner = "returned"
      /\ \E e \in store :
           /\ Lookup(store, getVideoUrl(call[q].path)) = {e}
           /\ e.timestamp = call[q].storedAt
           /\ \/ e.blob = call[q].blob
              \/ e.blob = call[p].blob /\ call[p].storedAt = call[q].storedAt

\* C18: expire-then-repopulate.  When the isVideoCached of loadVideo finds
\* the record of the path older than expiryTime it answers false and the
\* record is removed before getCachedVideo looks the key up; when the
\* network then answers, the blob is put, and once every transaction has
\* run the store holds for the key the record of that blob, stamped with
\* the time of the put and not expired.  (On a storage without faults.)
C18_ExpireThenRepopulate ==
  \A p \in Callers :
    (call[p].op = "loadVideo" /\ call[p].pc = "done"
       /\ call[p].cachedAge > expiryTime) =>
      /\ call[p].cached = "false"
      /\ ~faults =>
           /\ call[p].age = 0 - 1
           /\ call[p].inner = "returned" =>
                /\ call[p].populate = "queued"
                /\ call[p].storedAt >= 0
                /\ txq = <<>> =>
                     \E e \in store :
                       /\ Lookup(store, getVideoUrl(call[p].path)) = {e}
                       /\ e.blob = call[p].blob
                       /\ e.timestamp = call[p].storedAt
                       /\ ~isExpired(e.timestamp)

\* loadVideo found an expired record, fetched, and everything has run: the
\* store holds the new record, on a storage without faults.
C18_Repopulated ==
  \E p \in Callers :
    /\ ~faults
    /\ call[p].op = "loadVideo" /\ call[p].pc = "done"
    /\ call[p].cachedAge > expiryTime /\ call[p].inner = "returned"
    /\ txq = <<>> /\ openq = <<>>
    /\ \E e \in store :
         e.url = getVideoUrl(call[p].path) /\ e.timestamp > expiryTime

\* C19: the lookups fail soft.  Whatever the storage does, isVideoCached
\* answers true or false and getCachedVideo a blob or null: neither throws,
\* so no call of fetchVideoWithCache ends with a storage error.
C19_LookupFailsSoft ==
  \A p \in Callers :
    /\ (call[p].op = "isVideoCached" /\ call[p].pc = "done") =>
         call[p].ret \in {"true", "false"}
    /\ FetchDone(p) => call[p].err # "storage"

\* Where a request of fetchVideoWithCache is in the state machine.
Phase(c) ==
  CASE c.op # "getCachedVideoUrl" \/ c.pc = "idle" -> "NONE"
    [] c.pc \in {"gcv_open", "gcv_get"} -> "CHECK_CACHE"
    [] c.pc = "fetch" -> "FETCH_NETWORK"
    [] c.pc \in {"cv_open", "cl_open"} -> "POPULATE"
    [] c.pc = "done" /\ c.inner = "returned" -> "RETURN"
    [] OTHER -> "FAIL"

\* The transitions of a request.  A lookup or a populate that finds no
\* IndexedDB takes no step of its own: the request goes from its start to
\* FETCH_NETWORK, and from FETCH_NETWORK to RETURN.
Transitions ==
  { <<"NONE", "CHECK_CACHE">>, <<"NONE", "FETCH_NETWORK">>,
    <<"CHECK_CACHE", "RETURN">>, <<"CHECK_CACHE", "FETCH_NETWORK">>,
    <<"FETCH_NETWORK", "POPULATE">>, <<"FETCH_NETWORK", "RETURN">>,
    <<"FETCH_NETWORK", "FAIL">>, <<"POPULATE", "RETURN">>,
    <<"RETURN", "NONE">>, <<"FAIL", "NONE">> }

\* C20: every request of fetchVideoWithCache takes only the transitions of
\* the state machine: it returns from CHECK_CACHE only with a hit, reaches
\* the network once and only after a miss, populates only after the
\* network has answered, and fails only when the network has failed.
C20_RequestStateMachine ==
  [][\A p \in Callers :
       LET from == Phase(call[p])
           to   == Phase(call'[p])
       IN  from # to =>
             /\ <<from, to>> \in Transitions
             /\ (from = "CHECK_CACHE" /\ to = "RETURN") =>
                  call'[p].populate = "none"
             /\ (from = "FETCH_NETWORK" /\ to = "RETURN") =>
                  call'[p].populate = "skipped"
             /\ to = "FAIL" => call'[p].err = "network"
    ]_vars

\* The record the call of p has put: its key, its payload, the time of the
\* write and the byte length of the payload.
Written(p) ==
  [url |-> getVideoUrl(call[p].path), blob |-> call[p].blob,
   timestamp |-> call[p].storedAt, size |-> PayloadLength(call[p].blob.body)]

\* The call of p fetched a payload and queued its put, on a storage that does
\* not fail.
Populated(p) == ~faults /\ FetchDone(p) /\ call[p].populate = "queued"

PutPending == \E i \in 1..Len(txq) : txq[i].kind = "put"

\* C21: populate on miss.  On an available store that was empty, a
\* getCachedVideoUrl whose fetch brings n bytes returns that payload; once its
\* put has run the store holds exactly one record, for the key, with the
\* payload, size n and the time of the write; getCacheStats then reads
\* totalSize n and entryCount 1.
C21_PopulateOnMiss ==
  /\ [](Populated("c1") =>
          /\ call["c1"].blob \in Blobs
          /\ call["c1"].ret = "objectURL"
          /\ call["c1"].url = <<"blob:", call["c1"].blob.body>>
          /\ (~PutPending => store = {Written("c1")}))
  /\ [][call["c1"].pc = "cl_open" /\ call["c1"]'.populate = "queued"
          => call["c1"]'.storedAt = now]_vars
  /\ [][Populated("c1") /\ ~PutPending
          /\ call["c2"].pc = "gcs_getAll" /\ call["c2"]'.pc = "done"
          => call["c2"]'.stats =
               [totalSize |-> PayloadLength(call["c1"].blob.body),
                entryCount |-> 1, isSupported |-> TRUE]]_vars

\* Witness of C21: after the populate of a later second, the statistics read
\* one record of 0.6 * MAX_CACHE_SIZE bytes.
C21_StatsAfterPopulate ==
  /\ Populated("c1") /\ store = {Written("c1")} /\ call["c1"].storedAt > 0
  /\ call["c2"].pc = "done"
  /\ call["c2"].stats = [totalSize |-> Sixty, entryCount |-> 1,
                         isSupported |-> TRUE]

\* The bytes the records of S claim, added up record by record.
RECURSIVE BytesOf(_)
BytesOf(S) ==
  IF S = {} THEN 0
  ELSE LET e == CHOOSE x \in S : TRUE IN e.size + BytesOf(S \ {e})

\* C22: getCacheStats on an available store reports as entryCount the number
\* of stored records and as totalSize the sum of their sizes, expired records
\* included, and no step of the call changes the store.
C22_StatsCountEverything ==
  /\ [][~faults /\ call["c1"].pc = "gcs_getAll" /\ call["c1"]'.pc = "done"
          => call["c1"]'.stats = [totalSize |-> BytesOf(store),
                                  entryCount |-> Cardinality(store),
                                  isSupported |-> TRUE]]_vars
  /\ [][call["c1"]'.op = "getCacheStats" /\ call["c1"]' # call["c1"]
          => store' = store]_vars

\* Witness of C22: the statistics count two records, one of them expired.
C22_ExpiredCounted ==
  /\ ~faults /\ call["c1"].op = "getCacheStats" /\ call["c1"].pc = "done"
  /\ call["c1"].stats.entryCount = 2
  /\ call["c1"].stats.totalSize = BytesOf(store)
  /\ \E e \in store : isExpired(e.timestamp)

\* The records of the snapshot of transaction t that its deletes remove, and
\* those they leave.
Deleted(t) ==
  {t.snap[i] : i \in {j \in 1..Len(t.snap) :
                        \E k \in 1..Len(t.urls) : t.urls[k] = t.snap[j].url}}

Remaining(t) == {t.snap[i] : i \in 1..Len(t.snap)} \ Deleted(t)

\* The record the last delete of transaction t removes.
LastDeleted(t) ==
  CHOOSE e \in Deleted(t) : e.url = t.urls[Len(t.urls)]

\* 0.8 * MAX_CACHE_SIZE, which is a whole number of bytes.
EightTenths == (MAX_CACHE_SIZE \div 10) * 8

\* C23: eviction watermark.  A sweep that lists more than MAX_CACHE_SIZE
\* bytes deletes the oldest records first and stops at the first point where
\* the running total is at most 0.8 * MAX_CACHE_SIZE: the records it leaves
\* sum to at most that, none of them is older than a deleted one, and without
\* its last delete the total would still be above the watermark.
C23_EvictionWatermark ==
  \A i \in 1..Len(txq) :
    txq[i].kind = "evict" =>
      LET t == txq[i]
      IN  /\ BytesOf(Deleted(t) \cup Remaining(t)) > MAX_CACHE_SIZE
          /\ t.urls # <<>>
          /\ Cardinality(Deleted(t)) = Len(t.urls)
          /\ \A d \in Deleted(t), r \in Remaining(t) : d.timestamp <= r.timestamp
          /\ \A j, k \in 1..Len(t.urls) :
               j < k => \A d, e \in Deleted(t) :
                          d.url = t.urls[j] /\ e.url = t.urls[k]
                            => d.timestamp <= e.timestamp
          /\ BytesOf(Remaining(t)) <= EightTenths
          /\ BytesOf(Remaining(t)) + LastDeleted(t).size > EightTenths

\* Witness of C23: a sweep of three records deletes two; after its first
\* delete the total was within MAX_CACHE_SIZE but above the watermark.
C23_EvictsBelowBudget ==
  /\ txq # <<>> /\ txq[1].kind = "evict"
  /\ Len(txq[1].snap) = 3 /\ Len(txq[1].urls) = 2
  /\ BytesOf(Remaining(txq[1])) > 0
  /\ BytesOf(Remaining(txq[1])) + LastDeleted(txq[1]).size <= MAX_CACHE_SIZE

\* How many transactions of kind k wait in q.
CountOf(q, k) == Cardinality({i \in 1..Len(q) : q[i].kind = k})

\* C24: a sweep that lists at most MAX_CACHE_SIZE bytes deletes nothing, also
\* when the total is above the watermark: it creates no delete transaction,
\* and the put of the call changes the record of its own key only.
C24_NoEvictionWithinBudget ==
  /\ [][CountOf(txq', "sweep") < CountOf(txq, "sweep")
          /\ BytesOf(store) <= MAX_CACHE_SIZE
          => /\ CountOf(txq', "evict") = CountOf(txq, "evict")
             /\ Len(txq') = Len(txq) - 1
             /\ store' = store]_vars
  /\ [][Ran("put")
          => \A e \in store \cup store' :
               e.url # txq[1].url => e \in store /\ e \in store']_vars

\* Witness of C24: the sweep of a call has run on a store of exactly
\* MAX_CACHE_SIZE bytes, above the watermark, and only the put is left.
C24_SweptAtBudget ==
  /\ ~faults /\ FetchDone("c1") /\ call["c1"].populate = "queued"
  /\ Len(txq) = 1 /\ txq[1].kind = "put"
  /\ BytesOf(store) = MAX_CACHE_SIZE
  /\ Cardinality(store) = 2

\* C25: pre-write sweep ordering.  Within one cacheVideo call the sweep is
\* over before the put: the deletes of the call's sweep are never queued
\* behind the call's own put.  (A call of Spec starts when no earlier sweep,
\* put or delete is pending, so the deletes queued while the call's put waits
\* are those of its own sweep.)
C25_SweepBeforePut ==
  \A p \in SeqCallers :
    Populated(p) =>
      ~\E i, j \in 1..Len(txq) :
         /\ i < j
         /\ txq[i].kind = "put" /\ txq[i].entry = Written(p)
         /\ txq[j].kind = "evict"

\* C26: a cache hit is read-only.  The lookup that finds a record that is not
\* expired ends the call with the payload of that record, without a fetch;
\* the step changes no record (no timestamp is refreshed) and queues no open
\* request and no transaction.
C26_HitIsReadOnly ==
  [][\A p \in SeqCallers :
       call[p].pc = "gcv_get" /\ call[p]'.pc = "done" /\ call[p]'.inner = "returned"
         => /\ \E e \in store :
                 /\ e.url = getVideoUrl(call[p].path)
                 /\ ~(now - e.timestamp > expiryTime)
                 /\ call[p]'.blob = e.blob
                 /\ call[p]'.url = <<"blob:", e.blob.body>>
            /\ call[p]'.ret = "objectURL"
            /\ call[p]'.populate = "none"
            /\ store' = store
            /\ openq' = openq
            /\ \E i \in 1..Len(txq) :
                 txq[i].kind = "get" /\ txq' = Remove(txq, i)]_vars

\* Witness of C26: a call was served a record on the last second before its
\* expiry, and the record is stored as it was written.
C26_HitOnStoredRecord ==
  /\ Hit("c1") /\ call["c1"].age = expiryTime
  /\ txq = <<>> /\ openq = <<>>
  /\ \E e \in store :
       /\ e.url = getVideoUrl(call["c1"].path) /\ e.blob = call["c1"].blob
       /\ e.timestamp = now - expiryTime

\* C27: oversized objects are not rejected.  A call that fetched a payload of
\* more than MAX_CACHE_SIZE bytes returns it and puts it; once the work of
\* the call is over, the store holds the record for the key.
C27_OversizedIsStored ==
  \A p \in SeqCallers :
    Populated(p) /\ call[p].blob.size > MAX_CACHE_SIZE =>
      /\ call[p].ret = "objectURL"
      /\ call[p].url = <<"blob:", call[p].blob.body>>
      /\ (txq = <<>> => Written(p) \in store)

\* Both callers have fetched and queued their put, and nothing is pending.
AllCompleted ==
  /\ \A p \in Callers : FetchDone(p) /\ call[p].populate = "queued"
  /\ txq = <<>> /\ openq = <<>>

\* C28: eventual restoration of the budget under concurrency.  Once the calls
\* that were in flight together, and their sweeps, have completed, the sizes
\* of the stored records sum to at most MAX_CACHE_SIZE again, unless a stored
\* record is by itself larger than MAX_CACHE_SIZE.
C28_BudgetRestored ==
  AllCompleted =>
    \/ BytesOf(store) <= MAX_CACHE_SIZE
    \/ \E e \in store : e.size > MAX_CACHE_SIZE

\* C29: a sweep never deletes the record written by the cacheVideo call that
\* triggered it, also when the call writes again a key the sweep has listed,
\* so that a populate is followed by a hit.  (A call of Spec starts when no
\* earlier sweep is pending, so the deletes that run after the call's put are
\* those of its own sweep.)
C29_SweepSparesOwnEntry ==
  [][\A p \in SeqCallers :
       Populated(p) /\ Ran("evict") /\ Written(p) \in store
         => Written(p) \in store']_vars

\* C30: weak capacity bound.  When a call that has populated the store is
\* over, with its sweep, its deletes and its put, and no other write
\* overlapped it, the sizes of the stored records sum to at most
\* MAX_CACHE_SIZE plus the size of the record just written.
C30_WeakCapacityBound ==
  \A p \in SeqCallers :
    Populated(p) /\ txq = <<>> /\ openq = <<>> =>
      BytesOf(store) <= MAX_CACHE_SIZE + PayloadLength(call[p].blob.body)

\* Witness of C30: a completed call has left the store above MAX_CACHE_SIZE,
\* with its record and another one, and within the weak bound.
C30_AboveBudgetWithinBound ==
  /\ Populated("c1") /\ txq = <<>> /\ openq = <<>>
  /\ Written("c1") \in store /\ Cardinality(store) = 2
  /\ BytesOf(store) > MAX_CACHE_SIZE
  /\ BytesOf(store) <= MAX_CACHE_SIZE + call["c1"].blob.size

====
